---- MODULE Spec2Model ----
(***************************************************************************)
(* Model of the channel reconciliation and liveness pipeline of iptv-sub:  *)
(*   modules/parser.py        M3UParser.fetch_m3u, parse_m3u (line level)  *)
(*   modules/aggregator.py    ChannelAggregator                            *)
(*   modules/stream_tester.py StreamTester.test_stream, batch_test,        *)
(*                            _update_test_result                          *)
(*   modules/parser.py        M3UParser._parse_extinf,                     *)
(*                            _resolve_relative_url                       *)
(*   modules/subscription.py  SubscriptionManager                          *)
(*   modules/scheduler.py     UpdateScheduler.add_interval_job             *)
(*   modules/exporter.py      ChannelExporter.export_m3u, export_json      *)
(*   app.py                   update_subscriptions, test_streams,          *)
(*                            test_channel, the scheduler jobs,            *)
(*                            create_export, api_get_playlist              *)
(* Strings that the code inspects character by character (channel names)   *)
(* are sequences of one-character strings; opaque strings (urls, ids) are   *)
(* TLA+ strings.  Python's None is the string None, a missing dict key is   *)
(* the string Absent.                                                      *)
(* Spec runs aggregate_channels and batch_test one call at a time; inside  *)
(* batch_test every result application is a step of its own, in any order, *)
(* as as_completed delivers them.  The result of each future is fixed when  *)
(* the future is submitted.  SpecUpdate runs update_subscriptions on the   *)
(* subscriptions and store the process loaded, SpecStore adds the tests,   *)
(* SpecSched follows which executions of the cycles are active, SpecParse   *)
(* parses one playlist entry, SpecExport exports a loaded store, SpecSubs   *)
(* runs the calls of the subscription manager one at a time.               *)
(***************************************************************************)
EXTENDS Integers, Sequences, FiniteSets, TLC

None == "None"
Absent == "absent"
\* last_tested is a time; the value standing for None there
NoTime == 0

\* ------------------------------------------------------------------------
\* Bounds of the model
\* ------------------------------------------------------------------------
MaxCands == 2
MaxAggCalls == 2
MaxChannels == 2
MaxBatches == 2
MaxRuns == 2
MaxStoreCalls == 2
MaxTokens == 2
MaxFirings == 2

\* ------------------------------------------------------------------------
\* Characters and str methods used by the aggregator
\* ------------------------------------------------------------------------
LowerChars == {"c", "h", "d", "s", "f", "k", "u", "e", "v"}
UpperChars == {"C", "H", "D"}
DigitChars == {"1", "2", "4", "5", "6"}
AlnumChars == LowerChars \cup UpperChars \cup DigitChars
SpaceChars == {" "}

\* str.lower() on one character
LowerChar(c) ==
  CASE c = "C" -> "c"
    [] c = "H" -> "h"
    [] c = "D" -> "d"
    [] OTHER -> c

\* str.lower()
Lower(s) == [k \in 1..Len(s) |-> LowerChar(s[k])]

\* str.endswith(" " + suffix)
EndsWithSpaceSuffix(s, suffix) ==
  LET t == <<" ">> \o suffix
  IN  /\ Len(s) >= Len(t)
      /\ SubSeq(s, Len(s) - Len(t) + 1, Len(s)) = t

suffixes ==
  << <<"h","d">>, <<"s","d">>, <<"f","h","d">>, <<"4","k">>, <<"u","h","d">>,
     <<"h","2","6","4">>, <<"h","2","6","5">>, <<"h","e","v","c">> >>

\* the loop "for suffix in suffixes: if name.endswith(...): name = name[:-len(suffix)-1]"
RECURSIVE StripSuffixes(_, _)
StripSuffixes(name, k) ==
  IF k > Len(suffixes) THEN name
  ELSE IF EndsWithSpaceSuffix(name, suffixes[k])
       THEN StripSuffixes(SubSeq(name, 1, Len(name) - Len(suffixes[k]) - 1), k + 1)
       ELSE StripSuffixes(name, k + 1)

\* ''.join(c for c in name if c.isalnum() or c.isspace())
KeepAlnumSpace(s) == SelectSeq(s, LAMBDA c : c \in AlnumChars \/ c \in SpaceChars)

\* ' '.join(name.split()): whitespace runs collapse to one space, ends are trimmed
RECURSIVE SplitJoin(_, _, _)
SplitJoin(s, k, acc) ==
  IF k > Len(s) THEN acc
  ELSE IF s[k] \in SpaceChars
       THEN SplitJoin(s, k + 1, acc)
       ELSE IF k > 1 /\ s[k - 1] \in SpaceChars /\ acc # <<>>
            THEN SplitJoin(s, k + 1, acc \o <<" ", s[k]>>)
            ELSE SplitJoin(s, k + 1, Append(acc, s[k]))

_normalize_name(name) ==
  SplitJoin(KeepAlnumSpace(StripSuffixes(Lower(name), 1)), 1, <<>>)

\* ------------------------------------------------------------------------
\* difflib.SequenceMatcher(None, a, b).ratio() = 2*M/T
\* ------------------------------------------------------------------------
\* blocks a[i..i+k-1] = b[j..j+k-1] inside a[alo..ahi-1], b[blo..bhi-1]
CommonBlocks(a, b, alo, ahi, blo, bhi) ==
  { t \in (alo..(ahi - 1)) \X (blo..(bhi - 1)) \X (1..(ahi - alo)) :
      /\ t[1] + t[3] <= ahi
      /\ t[2] + t[3] <= bhi
      /\ \A d \in 0..(t[3] - 1) : a[t[1] + d] = b[t[2] + d] }

\* find_longest_match: longest block, then smallest i, then smallest j
find_longest_match(a, b, alo, ahi, blo, bhi) ==
  LET bs == CommonBlocks(a, b, alo, ahi, blo, bhi)
  IN  IF bs = {} THEN <<alo, blo, 0>>
      ELSE CHOOSE t \in bs : \A o \in bs :
             \/ t[3] > o[3]
             \/ t[3] = o[3] /\ t[1] < o[1]
             \/ t[3] = o[3] /\ t[1] = o[1] /\ t[2] <= o[2]

\* sum of the sizes of get_matching_blocks()
RECURSIVE MatchedChars(_, _, _, _, _, _)
MatchedChars(a, b, alo, ahi, blo, bhi) ==
  LET m == find_longest_match(a, b, alo, ahi, blo, bhi)
      i == m[1]
      j == m[2]
      k == m[3]
  IN  IF k = 0 THEN 0
      ELSE k
           + (IF alo < i /\ blo < j THEN MatchedChars(a, b, alo, i, blo, j) ELSE 0)
           + (IF i + k < ahi /\ j + k < bhi
              THEN MatchedChars(a, b, i + k, ahi, j + k, bhi) ELSE 0)

\* ratio() as the pair <<2*M, T>>; ratio() is 1.0 when T = 0
RatioPair(a, b) ==
  IF Len(a) + Len(b) = 0 THEN <<1, 1>>
  ELSE <<2 * MatchedChars(a, b, 1, Len(a) + 1, 1, Len(b) + 1), Len(a) + Len(b)>>

_name_similarity(name1, name2) == RatioPair(_normalize_name(name1), _normalize_name(name2))

\* similarity >= similarity_threshold, the threshold given in hundredths
SimilarityAtLeast(sim, threshold) == 100 * sim[1] >= threshold * sim[2]


\* ------------------------------------------------------------------------
\* Channel records
\* ------------------------------------------------------------------------
\* the dict batch_test installs when a channel has no test_results; the
\* 'error' key is missing from it and reads as None through .get('error')
UntestedResults ==
  [status |-> "untested", last_tested |-> NoTime, working_url |-> None,
   response_time |-> None, error |-> None]

\* channel_info.get(key, default)
Get(v, default) == IF v = Absent THEN default ELSE v

\* a channel_info dict without the 'name' key, and the default name that
\* channel_info.get('name', ...) gives for it
NoName == <<Absent>>
UnnamedName == <<"unnamed">>

\* the channel dict parse_m3u builds for one #EXTINF entry with its valid urls
ParseEntry(channel_info, valid_urls, source_url) ==
  [name |-> IF channel_info.name = NoName THEN UnnamedName ELSE channel_info.name,
   url |-> valid_urls[1],
   tvg_id |-> Get(channel_info.tvg_id, ""),
   tvg_name |-> Get(channel_info.tvg_name, ""),
   tvg_logo |-> Get(channel_info.tvg_logo, ""),
   group_title |-> Get(channel_info.group_title, "uncategorized"),
   source |-> source_url,
   has_sources |-> Len(valid_urls) > 1,
   sources |-> [k \in 1..(Len(valid_urls) - 1) |->
                  [url |-> valid_urls[k + 1], source |-> Absent]],
   has_test_results |-> FALSE,
   test_results |-> UntestedResults]

\* ------------------------------------------------------------------------
\* Inputs: playlist entries as the subscriptions publish them
\* ------------------------------------------------------------------------
NameC1 == <<"c", "1">>
NameC1HD == <<"C", "1", " ", "H", "D">>
NameC2 == <<"c", "2">>

ExtinfEntries ==
  { [info |-> [name |-> NameC1, tvg_id |-> Absent, tvg_name |-> Absent,
               tvg_logo |-> Absent, group_title |-> "g1"],
     urls |-> <<"u1", "u2">>, source |-> "s1"],
    [info |-> [name |-> NameC1HD, tvg_id |-> "t1", tvg_name |-> Absent,
               tvg_logo |-> "l1", group_title |-> "g1"],
     urls |-> <<"u2">>, source |-> "s2"],
    [info |-> [name |-> NameC2, tvg_id |-> "t1", tvg_name |-> Absent,
               tvg_logo |-> Absent, group_title |-> Absent],
     urls |-> <<"u3">>, source |-> "s2"] }

ParsedChannels == { ParseEntry(e.info, e.urls, e.source) : e \in ExtinfEntries }

\* candidate lists handed to aggregate_channels
CandidateLists == UNION { [1..n -> ParsedChannels] : n \in 1..MaxCands }

MatchModes == {"name", "tvg_id", "both"}

\* similarity_threshold in hundredths (config default 0.85)
Thresholds == {85}

\* ------------------------------------------------------------------------
\* Playlist text and M3UParser
\* ------------------------------------------------------------------------
\* A playlist is the sequence of its lines (content.splitlines(), each line
\* stripped).  A line is a record: kind is what the line starts with
\* ("#EXTM3U", "#EXTINF:", "#" for any other comment, "text" for a line that
\* does not start with '#', "blank" for an empty line), info is what
\* _parse_extinf extracts from an #EXTINF line, parts is re.split(r'[;#\s]+')
\* of a text line.
NameC12 == <<"c", "1", "2">>
NameC124 == <<"c", "1", "2", "4">>
NameC1245 == <<"c", "1", "2", "4", "5">>

NoInfo ==
  [name |-> <<>>, tvg_id |-> Absent, tvg_name |-> Absent, tvg_logo |-> Absent,
   group_title |-> Absent]

MarkerLine == [kind |-> "#EXTM3U", info |-> NoInfo, parts |-> <<>>]
CommentLine == [kind |-> "#", info |-> NoInfo, parts |-> <<>>]
BlankLine == [kind |-> "blank", info |-> NoInfo, parts |-> <<>>]
ExtinfLine(info) == [kind |-> "#EXTINF:", info |-> info, parts |-> <<>>]
TextLine(parts) == [kind |-> "text", info |-> NoInfo, parts |-> parts]

\* line.startswith('#')
StartsWithHash(line) == line.kind \in {"#EXTM3U", "#EXTINF:", "#"}

\* the tokens that start with http://, https:// or rtmp://; "U5" is a token
\* whose scheme is written in capitals (HTTP://...), "r1" is a relative path
\* and "/r2" a path from the root
LowerSchemeUrls == {"u1", "u2", "u3", "u4"}
StreamUrls == LowerSchemeUrls \cup {"U5"}

\* p.strip() and p.strip().lower().startswith(('http://', 'https://', 'rtmp://'))
HasStreamScheme(p) == p \in StreamUrls

\* p.startswith('http://') or p.startswith('https://') or p.startswith('rtmp://')
HasSchemePrefix(p) == p \in LowerSchemeUrls

\* urlparse(base_url): scheme://netloc of a subscription url, and its path
\* up to the last '/'
UrlOrigin(base_url) ==
  CASE base_url = "s1" -> "http://h1"
    [] base_url = "s2" -> "http://h2"
    [] OTHER -> "://"

UrlDirectory(base_url) ==
  CASE base_url = "s1" -> "/d/"
    [] OTHER -> "/"

\* _resolve_relative_url(base_url, relative_url)
_resolve_relative_url(base_url, relative_url) ==
  IF relative_url \in {"/r2"}
  THEN UrlOrigin(base_url) \o relative_url
  ELSE UrlOrigin(base_url) \o UrlDirectory(base_url) \o relative_url

\* An #EXTINF line as text: the sequence of its pieces.  A piece is one
\* character, or a run of characters the patterns of _parse_extinf never
\* look into ("#EXTINF:-1", an attribute value), or an attribute key with
\* its opening quote (tvg-id=").
Quote == "\""
KeyTvgId == "tvg-id=\""
KeyTvgName == "tvg-name=\""
KeyTvgLogo == "tvg-logo=\""
KeyGroupTitle == "group-title=\""

\* index of the first piece equal to piece at or after position i, 0 if none
RECURSIVE IndexFrom(_, _, _)
IndexFrom(s, piece, i) ==
  IF i > Len(s) THEN 0
  ELSE IF s[i] = piece THEN i
  ELSE IndexFrom(s, piece, i + 1)

\* ''.join(pieces)
RECURSIVE JoinPieces(_)
JoinPieces(s) == IF s = <<>> THEN "" ELSE Head(s) \o JoinPieces(Tail(s))

\* str.strip()
Strip(s) ==
  LET inked == { k \in 1..Len(s) : s[k] # " " }
  IN  IF inked = {} THEN <<>>
      ELSE SubSeq(s, CHOOSE k \in inked : \A o \in inked : k <= o,
                     CHOOSE k \in inked : \A o \in inked : k >= o)

\* re.search(key + '([^"]*?)"', extinf_line): group(1), Absent without a match
AttributeValue(extinf_line, key) ==
  LET a == IndexFrom(extinf_line, key, 1)
      b == IF a = 0 THEN 0 ELSE IndexFrom(extinf_line, Quote, a + 1)
  IN  IF a = 0 \/ b = 0 THEN Absent
      ELSE JoinPieces(SubSeq(extinf_line, a + 1, b - 1))

\* re.search(r',(.*?)$', extinf_line): group(1).strip(), NoName without a
\* match; the search takes the leftmost ','
ExtinfName(extinf_line) ==
  LET c == IndexFrom(extinf_line, ",", 1)
  IN  IF c = 0 THEN NoName
      ELSE Strip(SubSeq(extinf_line, c + 1, Len(extinf_line)))

\* _parse_extinf(extinf_line)
_parse_extinf(extinf_line) ==
  [name |-> ExtinfName(extinf_line),
   tvg_id |-> AttributeValue(extinf_line, KeyTvgId),
   tvg_name |-> AttributeValue(extinf_line, KeyTvgName),
   tvg_logo |-> AttributeValue(extinf_line, KeyTvgLogo),
   group_title |-> AttributeValue(extinf_line, KeyGroupTitle)]

\* #EXTINF lines as playlists carry them
ExtinfTexts ==
  { <<"#EXTINF:-1", ",", "c", "1">>,
    <<"#EXTINF:-1", " ", KeyTvgId, "t1", Quote, ",", "c", "1">>,
    <<"#EXTINF:-1", ",", "c", "1", ",", " ", "H", "D">>,
    <<"#EXTINF:-1", " ", KeyTvgName, "a", ",", "b", Quote, " ",
      KeyGroupTitle, "g1", Quote, ",", "c", "2">>,
    <<"#EXTINF:-1", " ", "c", "1">>,
    <<"#EXTINF:-1", " ", KeyTvgLogo, "l1", Quote, ",", " ", "c", "2", " ">> }

\* the tokens of url lines, and the url lines of up to MaxTokens tokens
UrlTokens == {"u1", "U5", "r1", "/r2"}
UrlLines == UNION { [1..n -> UrlTokens] : n \in 1..MaxTokens }

PlaylistA ==
  << MarkerLine,
     ExtinfLine([NoInfo EXCEPT !.name = NameC12]),
     TextLine(<<"u1", "u2">>) >>

PlaylistB ==
  << MarkerLine,
     ExtinfLine([NoInfo EXCEPT !.name = NameC12]),
     CommentLine,
     ExtinfLine([NoInfo EXCEPT !.name = NameC1245, !.tvg_id = "t1", !.tvg_logo = "l1"]),
     TextLine(<<"u2", "u3", "u3">>) >>

PlaylistC ==
  << BlankLine,
     MarkerLine,
     ExtinfLine([NoInfo EXCEPT !.name = NameC124, !.tvg_id = "t2", !.group_title = "g1"]),
     TextLine(<<"u3", "r1", "u4">>),
     TextLine(<<"u1">>) >>

\* a playlist without the leading #EXTM3U line
PlaylistD ==
  << ExtinfLine([NoInfo EXCEPT !.name = NameC12]),
     TextLine(<<"u1">>) >>

Playlists == {PlaylistA, PlaylistB, PlaylistC, PlaylistD}

\* the while loop of parse_m3u from line index i on
RECURSIVE ParseLines(_, _, _)
ParseLines(lines, i, source_url) ==
  IF i > Len(lines) THEN <<>>
  ELSE IF lines[i].kind = "blank"
          \/ (StartsWithHash(lines[i]) /\ lines[i].kind # "#EXTINF:")
  THEN ParseLines(lines, i + 1, source_url)
  ELSE IF /\ lines[i].kind = "#EXTINF:"
          /\ i + 1 <= Len(lines)
          /\ ~StartsWithHash(lines[i + 1])
  THEN LET filtered == SelectSeq(lines[i + 1].parts, HasStreamScheme)
           valid_urls ==
             IF filtered # <<>> /\ ~HasSchemePrefix(filtered[1])
             THEN [filtered EXCEPT ![1] = _resolve_relative_url(source_url, @)]
             ELSE filtered
       IN  (IF valid_urls # <<>>
            THEN <<ParseEntry(lines[i].info, valid_urls, source_url)>>
            ELSE <<>>)
           \o ParseLines(lines, i + 2, source_url)
  ELSE ParseLines(lines, i + 1, source_url)

\* parse_m3u(content, source_url)
parse_m3u(content, source_url) == ParseLines(content, 1, source_url)

\* content.strip().startswith('#EXTM3U')
RECURSIVE StartsWithMarker(_, _)
StartsWithMarker(content, i) ==
  IF i > Len(content) THEN FALSE
  ELSE IF content[i].kind = "blank" THEN StartsWithMarker(content, i + 1)
  ELSE content[i].kind = "#EXTM3U"

\* what requests.get(url) does: raises, or gives a response
FetchResponses ==
  { [raises |-> "Timeout", status_code |-> 0, content |-> <<>>],
    [raises |-> None, status_code |-> 404, content |-> <<>>] } \cup
  { [raises |-> None, status_code |-> 200, content |-> p] : p \in Playlists }

\* fetch_m3u accepting any text that came with status 200
FetchSkipsMarkerCheck(response) ==
  IF response.raises = "Timeout"
  THEN [success |-> FALSE, content |-> <<>>, message |-> "request timed out"]
  ELSE IF response.status_code # 200
  THEN [success |-> FALSE, content |-> <<>>, message |-> "HTTP error"]
  ELSE [success |-> TRUE, content |-> response.content, message |-> ""]

\* fetch_m3u: (success, content or error message)
fetch_m3u(response) ==
  IF response.raises = "Timeout"
  THEN [success |-> FALSE, content |-> <<>>, message |-> "request timed out"]
  ELSE IF response.status_code # 200
  THEN [success |-> FALSE, content |-> <<>>, message |-> "HTTP error"]
  ELSE IF ~StartsWithMarker(response.content, 1)
  THEN [success |-> FALSE, content |-> <<>>, message |-> "invalid M3U format"]
  ELSE [success |-> TRUE, content |-> response.content, message |-> ""]

\* ------------------------------------------------------------------------
\* ChannelAggregator
\* ------------------------------------------------------------------------
\* self._name_similarity(channel['name'], new_channel['name']), tabulated
\* over the names that occur in the playlists
EntryNames ==
  { e.info.name : e \in ExtinfEntries } \cup {NameC12, NameC124, NameC1245}
SimilarityOf == [name1 \in EntryNames, name2 \in EntryNames |-> _name_similarity(name1, name2)]

\* one iteration of the loop of _find_matching_channel
ChannelMatches(channel, new_channel, match_by, similarity_threshold) ==
  \/ /\ match_by \in {"tvg_id", "both"}
     /\ new_channel.tvg_id # ""
     /\ channel.tvg_id = new_channel.tvg_id
  \/ /\ match_by \in {"name", "both"}
     /\ \/ Lower(channel.name) = Lower(new_channel.name)
        \/ SimilarityAtLeast(SimilarityOf[channel.name, new_channel.name],
                             similarity_threshold)

\* index of the channel _find_matching_channel returns, 0 for None
_find_matching_channel(store, new_channel, match_by, similarity_threshold) ==
  LET hits == { k \in 1..Len(store) :
                  ChannelMatches(store[k], new_channel, match_by, similarity_threshold) }
  IN  IF hits = {} THEN 0
      ELSE CHOOSE k \in hits : \A o \in hits : k <= o

\* _update_channel taking the candidate's tvg_id whenever it has one
UpdateOverwritesTvgId(existing_channel, new_channel) ==
  LET sources0 ==
        IF existing_channel.has_sources THEN existing_channel.sources
        ELSE <<[url |-> existing_channel.url, source |-> existing_channel.source]>>
      source_exists == \E k \in 1..Len(sources0) : sources0[k].url = new_channel.url
      sources1 ==
        IF source_exists THEN sources0
        ELSE Append(sources0, [url |-> new_channel.url, source |-> new_channel.source])
  IN  [existing_channel EXCEPT
         !.has_sources = TRUE,
         !.sources = sources1,
         !.tvg_id = IF new_channel.tvg_id # "" THEN new_channel.tvg_id ELSE @,
         !.tvg_logo = IF existing_channel.tvg_logo = "" /\ new_channel.tvg_logo # ""
                      THEN new_channel.tvg_logo ELSE @]

\* _update_channel: the value of existing_channel afterwards
_update_channel(existing_channel, new_channel) ==
  LET sources0 ==
        IF existing_channel.has_sources THEN existing_channel.sources
        ELSE <<[url |-> existing_channel.url, source |-> existing_channel.source]>>
      source_exists == \E k \in 1..Len(sources0) : sources0[k].url = new_channel.url
      sources1 ==
        IF source_exists THEN sources0
        ELSE Append(sources0, [url |-> new_channel.url, source |-> new_channel.source])
  IN  [existing_channel EXCEPT
         !.has_sources = TRUE,
         !.sources = sources1,
         !.tvg_id = IF existing_channel.tvg_id = "" /\ new_channel.tvg_id # ""
                    THEN new_channel.tvg_id ELSE @,
         !.tvg_logo = IF existing_channel.tvg_logo = "" /\ new_channel.tvg_logo # ""
                      THEN new_channel.tvg_logo ELSE @]

\* the loop "for new_channel in new_channels" of aggregate_channels
RECURSIVE MergeLoop(_, _, _, _, _)
MergeLoop(store, new_channels, k, match_by, similarity_threshold) ==
  IF k > Len(new_channels) THEN store
  ELSE LET m == _find_matching_channel(store, new_channels[k], match_by,
                                       similarity_threshold)
       IN  IF m # 0
           THEN MergeLoop([store EXCEPT ![m] = _update_channel(store[m], new_channels[k])],
                          new_channels, k + 1, match_by, similarity_threshold)
           ELSE MergeLoop(Append(store, new_channels[k]),
                          new_channels, k + 1, match_by, similarity_threshold)

\* aggregate_channels taking the candidate list as the new store every time
AggregateReplacesStore(store, new_channels, match_by, similarity_threshold) ==
  new_channels

\* self.channels after aggregate_channels(new_channels, match_by, similarity_threshold)
aggregate_channels(store, new_channels, match_by, similarity_threshold) ==
  IF store = <<>> THEN new_channels
  ELSE MergeLoop(store, new_channels, 1, match_by, similarity_threshold)

\* save_channels(): True, or False when writing channels.json raises
save_channels(io_ok) == io_ok

\* the tuple aggregate_channels returns; saved is the value of its
\* self.save_channels() call, which lines 76 and 97 discard
aggregate_return(store, new_channels, match_by, similarity_threshold, saved) ==
  LET after == aggregate_channels(store, new_channels, match_by, similarity_threshold)
  IN  IF store = <<>>
      THEN [total |-> Len(after), added |-> Len(after), updated |-> 0]
      ELSE [total |-> Len(after),
            added |-> Len(after) - Len(store),
            updated |-> Len(new_channels) - (Len(after) - Len(store))]

\* ------------------------------------------------------------------------
\* SubscriptionManager and update_subscriptions
\* ------------------------------------------------------------------------
\* channel_count=None
NoCount == -1

\* update_subscription_status never storing the channel count
StatusDropsCount(subs, url, status, channel_count) ==
  LET hits == { i \in 1..Len(subs) : subs[i].url = url }
  IN  IF hits = {} THEN subs
      ELSE LET i == CHOOSE h \in hits : \A o \in hits : h <= o
           IN  [subs EXCEPT ![i].status = status]

\* self.subscriptions after update_subscription_status(url, status, channel_count)
update_subscription_status(subs, url, status, channel_count) ==
  LET hits == { i \in 1..Len(subs) : subs[i].url = url }
  IN  IF hits = {} THEN subs
      ELSE LET i == CHOOSE h \in hits : \A o \in hits : h <= o
           IN  [subs EXCEPT ![i].status = status,
                            ![i].channel_count =
                              IF channel_count # NoCount THEN channel_count ELSE @]

\* a subscription record as add_subscription builds it; its name and dates,
\* which no operation of the manager reads, are left out
NewSubscription(url) == [url |-> url, status |-> "active", channel_count |-> 0]

\* subscriptions.json after save_subscriptions(): the list, or what the file
\* held before when writing it raises
save_subscriptions(subs, file, io_ok) == IF io_ok THEN subs ELSE file

\* self.subscriptions after load_subscriptions(): the list of the file, or
\* [] when reading it raises
load_subscriptions(file, read_ok) == IF read_ok THEN file ELSE <<>>

\* "for sub in self.subscriptions: if sub['url'] == url"
HasUrl(subs, url) == \E i \in 1..Len(subs) : subs[i].url = url

\* add_subscription(url): what it returns, the list and the file afterwards;
\* is_valid is the answer of validate_url
add_subscription(subs, file, url, is_valid, io_ok) ==
  IF HasUrl(subs, url) \/ ~is_valid
  THEN [ok |-> FALSE, subscriptions |-> subs, file |-> file]
  ELSE LET appended == Append(subs, NewSubscription(url))
       IN  IF io_ok
           THEN [ok |-> TRUE, subscriptions |-> appended,
                 file |-> save_subscriptions(appended, file, io_ok)]
           ELSE [ok |-> FALSE, subscriptions |-> SubSeq(appended, 1, Len(appended) - 1),
                 file |-> save_subscriptions(appended, file, io_ok)]

\* remove_subscription(url)
remove_subscription(subs, file, url, io_ok, read_ok) ==
  LET kept == SelectSeq(subs, LAMBDA sub : sub.url # url)
  IN  IF Len(kept) < Len(subs)
      THEN IF io_ok
           THEN [ok |-> TRUE, subscriptions |-> kept,
                 file |-> save_subscriptions(kept, file, io_ok)]
           ELSE [ok |-> FALSE, subscriptions |-> load_subscriptions(file, read_ok),
                 file |-> save_subscriptions(kept, file, io_ok)]
      ELSE [ok |-> FALSE, subscriptions |-> kept, file |-> file]

\* update_subscription that does not look for new_url in the list
UpdateSkipsUrlCheck(subs, file, old_url, new_url, is_valid, io_ok, read_ok) ==
  IF ~HasUrl(subs, old_url)
  THEN [ok |-> FALSE, subscriptions |-> subs, file |-> file]
  ELSE IF old_url # new_url /\ ~is_valid
  THEN [ok |-> FALSE, subscriptions |-> subs, file |-> file]
  ELSE LET i == CHOOSE h \in 1..Len(subs) :
                  subs[h].url = old_url /\ \A o \in 1..(h - 1) : subs[o].url # old_url
           changed == [subs EXCEPT ![i].url = new_url]
       IN  IF io_ok
           THEN [ok |-> TRUE, subscriptions |-> changed,
                 file |-> save_subscriptions(changed, file, io_ok)]
           ELSE [ok |-> FALSE, subscriptions |-> load_subscriptions(file, read_ok),
                 file |-> save_subscriptions(changed, file, io_ok)]

\* update_subscription(old_url, new_url)
update_subscription(subs, file, old_url, new_url, is_valid, io_ok, read_ok) ==
  IF ~HasUrl(subs, old_url)
  THEN [ok |-> FALSE, subscriptions |-> subs, file |-> file]
  ELSE IF old_url # new_url /\ (HasUrl(subs, new_url) \/ ~is_valid)
  THEN [ok |-> FALSE, subscriptions |-> subs, file |-> file]
  ELSE LET i == CHOOSE h \in 1..Len(subs) :
                  subs[h].url = old_url /\ \A o \in 1..(h - 1) : subs[o].url # old_url
           changed == [subs EXCEPT ![i].url = new_url]
       IN  IF io_ok
           THEN [ok |-> TRUE, subscriptions |-> changed,
                 file |-> save_subscriptions(changed, file, io_ok)]
           ELSE [ok |-> FALSE, subscriptions |-> load_subscriptions(file, read_ok),
                 file |-> save_subscriptions(changed, file, io_ok)]

\* the loop "for sub in subscriptions" of update_subscriptions from the k-th
\* subscription on; responses[k] is what requests.get gives for it
RECURSIVE UpdateLoop(_, _, _, _)
UpdateLoop(subs, responses, k, all_channels) ==
  IF k > Len(subs) THEN [subscriptions |-> subs, all_channels |-> all_channels]
  ELSE LET url == subs[k].url
           fetched == fetch_m3u(responses[k])
       IN  IF fetched.success
           THEN LET parsed == parse_m3u(fetched.content, url)
                IN  UpdateLoop(update_subscription_status(subs, url, "active", Len(parsed)),
                               responses, k + 1, all_channels \o parsed)
           ELSE UpdateLoop(update_subscription_status(subs, url, "failed", NoCount),
                           responses, k + 1, all_channels)


\* ------------------------------------------------------------------------
\* StreamTester
\* ------------------------------------------------------------------------
\* what a future of test_stream returns: (True, elapsed) or (False, message)
Latencies == {"0.120"}
ErrorMessages == {"timeout"}
\* what the request of test_stream does for a url: it answers with status
\* 200, or it raises requests.exceptions.Timeout
UrlBehaviours == {"status_200", "raises_Timeout"}

\* test_stream letting the exception of the request escape
TestStreamRaises(behaviour) ==
  IF behaviour = "status_200"
  THEN [raised |-> FALSE, is_working |-> TRUE, result |-> "0.120"]
  ELSE [raised |-> TRUE, is_working |-> FALSE, result |-> "timeout"]

\* test_stream(url): what future.result() gives; the exception of the
\* request ends in the except clause of lines 109-110
test_stream(behaviour) ==
  IF behaviour = "status_200"
  THEN [raised |-> FALSE, is_working |-> TRUE, result |-> "0.120"]
  ELSE [raised |-> FALSE, is_working |-> FALSE, result |-> "timeout"]

ProbeOutcomes == { test_stream(behaviour) : behaviour \in UrlBehaviours }

\* round(result, 3) if isinstance(result, (int, float)) else None
ResponseTime(result) == IF result \in Latencies THEN result ELSE None

\* lines 133-139 and 211-217: install a test_results dict when there is none
EnsureTestResults(channel) ==
  IF channel.has_test_results THEN channel
  ELSE [channel EXCEPT !.has_test_results = TRUE, !.test_results = UntestedResults]

\* the tasks batch_test appends for the channel at position i of its list
ChannelTasks(i, channel, all_sources) ==
  LET main == IF channel.url # ""
              THEN <<[i |-> i, url |-> channel.url, url_type |-> "main", j |-> 0]>>
              ELSE <<>>
      src == IF all_sources /\ channel.has_sources
             THEN [j \in 1..Len(channel.sources) |->
                     [i |-> i, url |-> channel.sources[j].url,
                      url_type |-> "source", j |-> j - 1]]
             ELSE <<>>
  IN  main \o SelectSeq(src, LAMBDA t : t.url # "")

RECURSIVE BuildTasks(_, _, _, _)
BuildTasks(store, list, i, all_sources) ==
  IF i > Len(list) THEN <<>>
  ELSE ChannelTasks(i, store[list[i]], all_sources)
       \o BuildTasks(store, list, i + 1, all_sources)

\* _update_test_result with the offline branches leaving working_url and
\* response_time as they were
UpdateKeepsWorkingUrl(channel, url, url_type, is_working, result, now) ==
  LET tr == [channel.test_results EXCEPT !.last_tested = now]
  IN  IF is_working
      THEN [channel EXCEPT
              !.test_results = [tr EXCEPT !.status = "online",
                                          !.error = None,
                                          !.working_url = url,
                                          !.response_time = ResponseTime(result)],
              !.url = IF url_type = "source" /\ channel.url # url THEN url ELSE @]
      ELSE IF url_type = "main" \/ tr.status # "online"
      THEN [channel EXCEPT
              !.test_results = [tr EXCEPT !.status = "offline", !.error = result]]
      ELSE [channel EXCEPT !.test_results = tr]

\* _update_test_result that, when it promotes a source url, takes the url out
\* of the sources list
UpdateDropsPromotedSource(channel, url, url_type, is_working, result, now) ==
  LET tr == [channel.test_results EXCEPT !.last_tested = now]
  IN  IF is_working
      THEN [channel EXCEPT
              !.test_results = [tr EXCEPT !.status = "online",
                                          !.error = None,
                                          !.working_url = url,
                                          !.response_time = ResponseTime(result)],
              !.url = IF url_type = "source" /\ channel.url # url THEN url ELSE @,
              !.sources = IF url_type = "source" /\ channel.url # url
                          THEN SelectSeq(@, LAMBDA s : s.url # url) ELSE @]
      ELSE IF url_type = "main" \/ tr.status # "online"
      THEN [channel EXCEPT
              !.test_results = [tr EXCEPT !.status = "offline",
                                          !.error = result,
                                          !.working_url = None,
                                          !.response_time = None]]
      ELSE [channel EXCEPT !.test_results = tr]

\* _update_test_result: the value of channel afterwards
_update_test_result(channel, url, url_type, is_working, result, now) ==
  LET tr == [channel.test_results EXCEPT !.last_tested = now]
  IN  IF is_working
      THEN [channel EXCEPT
              !.test_results = [tr EXCEPT !.status = "online",
                                          !.error = None,
                                          !.working_url = url,
                                          !.response_time = ResponseTime(result)],
              !.url = IF url_type = "source" /\ channel.url # url THEN url ELSE @]
      ELSE IF url_type = "main"
      THEN [channel EXCEPT
              !.test_results = [tr EXCEPT !.status = "offline",
                                          !.error = result,
                                          !.working_url = None,
                                          !.response_time = None]]
      ELSE IF tr.status # "online"
      THEN [channel EXCEPT
              !.test_results = [tr EXCEPT !.status = "offline",
                                          !.error = result,
                                          !.working_url = None,
                                          !.response_time = None]]
      ELSE [channel EXCEPT !.test_results = tr]

\* the KeyboardInterrupt handler marking every channel untested
InterruptMarksUntested(channel) ==
  [channel EXCEPT !.test_results = UntestedResults]

\* the KeyboardInterrupt handler, lines 200-202
InterruptHandler(channel) ==
  IF channel.test_results.status = "untested"
  THEN [channel EXCEPT !.test_results.status = "untested"]
  ELSE channel

\* ------------------------------------------------------------------------
\* State
\* ------------------------------------------------------------------------
VARIABLES
  channels,          \* ChannelAggregator.channels
  agg_calls,         \* number of aggregate_channels calls made
  agg_hist,          \* history: the latest aggregate_channels call since the last batch_test
  pc,                \* batch_test: "idle", "testing", "returned", "interrupted"
  batch,             \* the list given to batch_test, as indices into channels
  test_all_sources,  \* the argument of batch_test
  test_tasks,        \* test_tasks of batch_test
  probe,             \* the result of each task's future
  applied,           \* tasks as_completed has yielded so far
  before,            \* history: channels when batch_test was called
  clock,             \* time.strftime, counted in batch_test calls
  progress,          \* batch_test: completed_count, online_count, offline_count, len(channels)
  subscriptions,     \* SubscriptionManager.subscriptions
  subs_file,         \* the list that subscriptions.json holds
  sub_call,          \* history: the latest SubscriptionManager call and what it returned
  run,               \* history: the latest update_subscriptions run
  config,            \* Config: match_by and similarity_threshold
  jobs,              \* UpdateScheduler.jobs: the ids of the scheduled jobs
  running,           \* the executions of a job or request function now active
  fired,             \* history: for each job id, its runs since the job was added
  parse_call,        \* history: the latest parse_m3u call
  exported           \* history: the latest export or playlist request

vars == <<channels, agg_calls, agg_hist, pc, batch, test_all_sources, test_tasks,
          probe, applied, before, clock, progress, subscriptions, subs_file, sub_call,
          run, config, jobs, running, fired, parse_call, exported>>

batchVars ==
  <<pc, batch, test_all_sources, test_tasks, probe, applied, before, clock, progress>>

\* the counters outside batch_test
NoProgress == [completed |-> 0, online |-> 0, offline |-> 0, total |-> 0]

updVars == <<subscriptions, subs_file, sub_call, run, config>>

NoSubCall == [op |-> "none", ok |-> FALSE]

\* Config() without a config.json
DefaultConfig == [match_by |-> "name", similarity_threshold |-> 85]

\* the values config.json can give
Configs ==
  { [match_by |-> m, similarity_threshold |-> th] : m \in MatchModes, th \in Thresholds }

schedVars == <<jobs, running, fired>>

auxVars == <<parse_call, exported>>

NoExport == [op |-> "none", only_working |-> FALSE, written |-> <<>>]

NoParse ==
  [done |-> FALSE, extinf_line |-> <<>>, parts |-> <<>>, source_url |-> "none",
   info |-> NoInfo, channels |-> <<>>]

NoRun ==
  [n |-> 0, responses |-> <<>>, match_by |-> "none", similarity_threshold |-> 0,
   before |-> <<>>, all_channels |-> <<>>, saved |-> TRUE,
   returned |-> [total |-> 0, added |-> 0, updated |-> 0]]

NoCall ==
  [new_channels |-> <<>>, match_by |-> "none", similarity_threshold |-> 0,
   count |-> 0, repeated |-> FALSE, prev_count |-> 0]

\* ChannelAggregator() on a data directory without channels.json
Init ==
  /\ channels = <<>>
  /\ agg_calls = 0
  /\ agg_hist = NoCall
  /\ pc = "idle"
  /\ batch = <<>>
  /\ test_all_sources = FALSE
  /\ test_tasks = <<>>
  /\ probe = <<>>
  /\ applied = {}
  /\ before = <<>>
  /\ clock = 0
  /\ progress = NoProgress
  /\ subscriptions = <<>>
  /\ subs_file = subscriptions
  /\ sub_call = NoSubCall
  /\ run = NoRun
  /\ config = DefaultConfig
  /\ jobs = {}
  /\ running = {}
  /\ fired = [job_id \in {"update_subscriptions", "test_streams",
                           "update_subscriptions_once", "test_streams_once"} |-> 0]
  /\ parse_call = NoParse
  /\ exported = NoExport

\* ------------------------------------------------------------------------
\* Actions
\* ------------------------------------------------------------------------
\* channel_aggregator.aggregate_channels(new_channels, match_by, similarity_threshold)
Aggregate(new_channels, match_by, similarity_threshold) ==
  LET after == aggregate_channels(channels, new_channels, match_by, similarity_threshold)
  IN  /\ pc = "idle"
      /\ agg_calls < MaxAggCalls
      /\ Len(after) <= MaxChannels
      /\ channels' = after
      /\ agg_calls' = agg_calls + 1
      /\ agg_hist' = [new_channels |-> new_channels,
                      match_by |-> match_by,
                      similarity_threshold |-> similarity_threshold,
                      count |-> Len(after),
                      repeated |-> /\ agg_hist # NoCall
                                   /\ agg_hist.new_channels = new_channels
                                   /\ agg_hist.match_by = match_by
                                   /\ agg_hist.similarity_threshold = similarity_threshold,
                      prev_count |-> agg_hist.count]
      /\ UNCHANGED batchVars
      /\ UNCHANGED <<updVars, schedVars, auxVars>>

\* batch_test(list, all_sources) up to the submission of the futures
StartBatch(list, all_sources) ==
  LET inited == [k \in 1..Len(channels) |->
                   IF \E i \in 1..Len(list) : list[i] = k
                   THEN EnsureTestResults(channels[k]) ELSE channels[k]]
      tasks == BuildTasks(inited, list, 1, all_sources)
  IN  /\ pc = "idle"
      /\ clock < MaxBatches
      /\ channels' = inited
      /\ before' = channels
      /\ batch' = list
      /\ test_all_sources' = all_sources
      /\ test_tasks' = tasks
      /\ probe' \in [1..Len(tasks) -> ProbeOutcomes]
      /\ applied' = {}
      /\ clock' = clock + 1
      /\ progress' = [NoProgress EXCEPT !.total = Len(list)]
      /\ pc' = "testing"
      /\ agg_hist' = NoCall
      /\ UNCHANGED agg_calls
      /\ UNCHANGED <<updVars, schedVars, auxVars>>

\* test_streams(): batch_test(all channels, config.test_all_sources)
TestStreams == StartBatch([k \in 1..Len(channels) |-> k], FALSE)

\* POST /channels/test/<channel_id>: batch_test([channel], True)
TestChannel(channel_id) ==
  /\ 0 <= channel_id /\ channel_id < Len(channels)
  /\ StartBatch(<<channel_id + 1>>, TRUE)

\* one iteration of "for future in as_completed(future_to_task)"
ApplyResult(t) ==
  /\ pc = "testing"
  /\ t \in (1..Len(test_tasks)) \ applied
  /\ LET task == test_tasks[t]
         k == batch[task.i]
     IN  IF probe[t].raised
         THEN channels' = channels
         ELSE channels' = [channels EXCEPT ![k] =
                _update_test_result(channels[k], task.url, task.url_type,
                                    probe[t].is_working, probe[t].result, clock)]
  /\ applied' = applied \cup {t}
  /\ LET status == channels'[batch[test_tasks[t].i]].test_results.status
     IN  progress' = [progress EXCEPT
                        !.completed = @ + 1,
                        !.online = IF status = "online" THEN @ + 1 ELSE @,
                        !.offline = IF status = "offline" THEN @ + 1 ELSE @]
  /\ UNCHANGED <<agg_calls, agg_hist, pc, batch, test_all_sources, test_tasks,
                 probe, before, clock>>
  /\ UNCHANGED <<updVars, schedVars, auxVars>>

\* the loop is exhausted: lines 209-219, batch_test returns
FinishBatch ==
  /\ pc = "testing"
  /\ applied = 1..Len(test_tasks)
  /\ channels' = [k \in 1..Len(channels) |->
                    IF \E i \in 1..Len(batch) : batch[i] = k
                    THEN EnsureTestResults(channels[k]) ELSE channels[k]]
  /\ pc' = "returned"
  /\ UNCHANGED <<agg_calls, agg_hist, batch, test_all_sources, test_tasks,
                 probe, applied, before, clock, progress>>
  /\ UNCHANGED <<updVars, schedVars, auxVars>>

\* KeyboardInterrupt inside the try block: lines 197-205
InterruptBatch ==
  /\ pc = "testing"
  /\ channels' = [k \in 1..Len(channels) |->
                    IF \E i \in 1..Len(batch) : batch[i] = k
                    THEN InterruptHandler(channels[k]) ELSE channels[k]]
  /\ pc' = "interrupted"
  /\ UNCHANGED <<agg_calls, agg_hist, batch, test_all_sources, test_tasks,
                 probe, applied, before, clock, progress>>
  /\ UNCHANGED <<updVars, schedVars, auxVars>>

\* the caller of batch_test is left (normally or by the exception)
LeaveBatch ==
  /\ pc \in {"returned", "interrupted"}
  /\ pc' = "idle"
  /\ batch' = <<>>
  /\ test_all_sources' = FALSE
  /\ test_tasks' = <<>>
  /\ probe' = <<>>
  /\ applied' = {}
  /\ before' = <<>>
  /\ progress' = NoProgress
  /\ UNCHANGED <<channels, agg_calls, agg_hist, clock>>
  /\ UNCHANGED <<updVars, schedVars, auxVars>>

Next ==
  \/ \E c \in CandidateLists, m \in MatchModes, th \in Thresholds : Aggregate(c, m, th)
  \/ TestStreams
  \/ \E id \in 0..(MaxChannels - 1) : TestChannel(id)
  \/ \E t \in 1..Len(test_tasks) : ApplyResult(t)
  \/ FinishBatch
  \/ InterruptBatch
  \/ LeaveBatch

Spec == Init /\ [][Next]_vars

\* The stream tester on its own: the process starts on the channels.json that
\* the first update_subscriptions run of an earlier process saved
\* (load_channels, aggregate_channels lines 73-77), and only tests run.
InitTest ==
  /\ channels \in { aggregate_channels(<<>>, c, m, th) :
                      c \in CandidateLists, m \in MatchModes, th \in Thresholds }
  /\ agg_calls = 0
  /\ agg_hist = NoCall
  /\ pc = "idle"
  /\ batch = <<>>
  /\ test_all_sources = FALSE
  /\ test_tasks = <<>>
  /\ probe = <<>>
  /\ applied = {}
  /\ before = <<>>
  /\ clock = 0
  /\ progress = NoProgress
  /\ subscriptions = <<>>
  /\ subs_file = subscriptions
  /\ sub_call = NoSubCall
  /\ run = NoRun
  /\ config = DefaultConfig
  /\ jobs = {}
  /\ running = {}
  /\ fired = [job_id \in {"update_subscriptions", "test_streams",
                           "update_subscriptions_once", "test_streams_once"} |-> 0]
  /\ parse_call = NoParse
  /\ exported = NoExport

NextTest ==
  \/ TestStreams
  \/ \E id \in 0..(MaxCands - 1) : TestChannel(id)
  \/ \E t \in 1..Len(test_tasks) : ApplyResult(t)
  \/ FinishBatch
  \/ InterruptBatch
  \/ LeaveBatch

SpecTest == InitTest /\ [][NextTest]_vars

\* ------------------------------------------------------------------------
\* update_subscriptions
\* ------------------------------------------------------------------------
\* subscriptions.json as add_subscription wrote it: distinct urls, status
\* 'active', channel_count 0
LoadedSubscriptions ==
  { <<NewSubscription("s1")>>, <<NewSubscription("s1"), NewSubscription("s2")>> }

\* channels.json as an earlier process left it: nothing, or the channel of
\* PlaylistA after a batch_test that found its main url available
TestedChannel ==
  _update_test_result(EnsureTestResults(parse_m3u(PlaylistA, "s1")[1]),
                      "u1", "main", TRUE, "0.120", 1)

LoadedStores == { <<>>, <<TestedChannel>> }

\* update_subscriptions(); responses[k] is the answer to the k-th fetch,
\* io_ok tells whether the files of the data directory (channels.json,
\* subscriptions.json) can be written
UpdateSubscriptions(responses, io_ok) ==
  LET looped == UpdateLoop(subscriptions, responses, 1, <<>>)
      all_channels == looped.all_channels
      match_by == config.match_by
      similarity_threshold == config.similarity_threshold
  IN  /\ pc = "idle"
      /\ run.n < MaxRuns
      /\ subscriptions' = looped.subscriptions
      /\ subs_file' = IF subscriptions # <<>>
                      THEN save_subscriptions(looped.subscriptions, subs_file, io_ok)
                      ELSE subs_file
      /\ IF all_channels # <<>>
         THEN /\ channels' = aggregate_channels(channels, all_channels, match_by,
                                                similarity_threshold)
              /\ run' = [n |-> run.n + 1,
                         responses |-> responses,
                         match_by |-> match_by,
                         similarity_threshold |-> similarity_threshold,
                         before |-> channels,
                         all_channels |-> all_channels,
                         saved |-> save_channels(io_ok),
                         returned |-> aggregate_return(channels, all_channels, match_by,
                                                       similarity_threshold,
                                                       save_channels(io_ok))]
         ELSE /\ channels' = channels
              /\ run' = [NoRun EXCEPT !.n = run.n + 1,
                                      !.responses = responses,
                                      !.before = channels]
      /\ UNCHANGED <<agg_calls, agg_hist, batchVars, config, sub_call, schedVars,
                     auxVars>>

InitUpdate ==
  /\ channels \in LoadedStores
  /\ agg_calls = 0
  /\ agg_hist = NoCall
  /\ pc = "idle"
  /\ batch = <<>>
  /\ test_all_sources = FALSE
  /\ test_tasks = <<>>
  /\ probe = <<>>
  /\ applied = {}
  /\ before = <<>>
  /\ clock = 0
  /\ progress = NoProgress
  /\ subscriptions \in LoadedSubscriptions
  /\ subs_file = subscriptions
  /\ sub_call = NoSubCall
  /\ run = NoRun
  /\ config \in Configs
  /\ jobs = {}
  /\ running = {}
  /\ fired = [job_id \in {"update_subscriptions", "test_streams",
                           "update_subscriptions_once", "test_streams_once"} |-> 0]
  /\ parse_call = NoParse
  /\ exported = NoExport

NextUpdate ==
  \E responses \in [1..Len(subscriptions) -> FetchResponses], io_ok \in BOOLEAN :
    UpdateSubscriptions(responses, io_ok)

SpecUpdate == InitUpdate /\ [][NextUpdate]_vars

\* ------------------------------------------------------------------------
\* The subscription pages: add, remove, edit, and the status updates
\* ------------------------------------------------------------------------
SubscriptionUrls == {"s1", "s2"}

\* POST /subscriptions/add
AddSubscription(url, is_valid, io_ok) ==
  LET r == add_subscription(subscriptions, subs_file, url, is_valid, io_ok)
  IN  /\ subscriptions' = r.subscriptions
      /\ subs_file' = r.file
      /\ sub_call' = [op |-> "add_subscription", ok |-> r.ok]
      /\ UNCHANGED <<channels, agg_calls, agg_hist, batchVars, run, config, schedVars,
                     auxVars>>

\* POST /subscriptions/remove
RemoveSubscription(url, io_ok, read_ok) ==
  LET r == remove_subscription(subscriptions, subs_file, url, io_ok, read_ok)
  IN  /\ subscriptions' = r.subscriptions
      /\ subs_file' = r.file
      /\ sub_call' = [op |-> "remove_subscription", ok |-> r.ok]
      /\ UNCHANGED <<channels, agg_calls, agg_hist, batchVars, run, config, schedVars,
                     auxVars>>

\* POST /subscriptions/edit
UpdateSubscription(old_url, new_url, is_valid, io_ok, read_ok) ==
  LET r == update_subscription(subscriptions, subs_file, old_url, new_url, is_valid,
                               io_ok, read_ok)
  IN  /\ subscriptions' = r.subscriptions
      /\ subs_file' = r.file
      /\ sub_call' = [op |-> "update_subscription", ok |-> r.ok]
      /\ UNCHANGED <<channels, agg_calls, agg_hist, batchVars, run, config, schedVars,
                     auxVars>>

\* update_subscription_status(url, status, channel_count), as
\* update_subscriptions calls it for one subscription
UpdateSubscriptionStatus(url, status, channel_count, io_ok) ==
  LET updated == update_subscription_status(subscriptions, url, status, channel_count)
  IN  /\ subscriptions' = updated
      /\ subs_file' = IF HasUrl(subscriptions, url)
                      THEN save_subscriptions(updated, subs_file, io_ok)
                      ELSE subs_file
      /\ sub_call' = [op |-> "update_subscription_status",
                      ok |-> HasUrl(subscriptions, url) /\ io_ok]
      /\ UNCHANGED <<channels, agg_calls, agg_hist, batchVars, run, config, schedVars,
                     auxVars>>

NextSubs ==
  \/ \E url \in SubscriptionUrls, is_valid, io_ok \in BOOLEAN :
       AddSubscription(url, is_valid, io_ok)
  \/ \E url \in SubscriptionUrls, io_ok, read_ok \in BOOLEAN :
       RemoveSubscription(url, io_ok, read_ok)
  \/ \E old_url, new_url \in SubscriptionUrls, is_valid, io_ok, read_ok \in BOOLEAN :
       UpdateSubscription(old_url, new_url, is_valid, io_ok, read_ok)
  \/ \E url \in SubscriptionUrls, io_ok \in BOOLEAN :
       \/ UpdateSubscriptionStatus(url, "failed", NoCount, io_ok)
       \/ UpdateSubscriptionStatus(url, "active", 1, io_ok)

SpecSubs == Init /\ [][NextSubs]_vars

\* ------------------------------------------------------------------------
\* M3UParser on its own
\* ------------------------------------------------------------------------
\* parse_m3u(content, source_url) on the playlist "#EXTM3U", extinf_line and
\* the url line with the tokens parts
ParseM3U(extinf_line, parts, source_url) ==
  /\ parse_call' = [done |-> TRUE,
                extinf_line |-> extinf_line,
                parts |-> parts,
                source_url |-> source_url,
                info |-> _parse_extinf(extinf_line),
                channels |-> parse_m3u(<<MarkerLine,
                                         ExtinfLine(_parse_extinf(extinf_line)),
                                         TextLine(parts)>>, source_url)]
  /\ UNCHANGED <<channels, agg_calls, agg_hist, batchVars, updVars, schedVars,
                 exported>>

NextParse ==
  \E extinf_line \in ExtinfTexts, parts \in UrlLines, source_url \in {"s1", "s2"} :
    ParseM3U(extinf_line, parts, source_url)

SpecParse == Init /\ [][NextParse]_vars

\* ------------------------------------------------------------------------
\* ChannelExporter and GET /api/playlist.m3u
\* ------------------------------------------------------------------------
\* An exported entry is the channel it was written for, its #EXTINF line as
\* the sequence of its pieces, and its url line.
\* ' key="value"' of the playlist endpoint, nothing for an empty value
ApiAttribute(key, value) ==
  IF value = <<>> \/ value = <<"">> THEN <<>> ELSE <<" ", key>> \o value \o <<Quote>>

\* 'key="value" ' of export_m3u, nothing for an empty value
M3uAttribute(key, value) ==
  IF value = <<>> \/ value = <<"">> THEN <<>> ELSE <<key>> \o value \o <<Quote, " ">>

\* channel['tvg_name'] if it is not empty, else channel['name']
TvgNameOrName(channel) ==
  IF channel.tvg_name # "" THEN <<channel.tvg_name>> ELSE channel.name

\* export_m3u lines 72-85: the #EXTINF line of a channel
M3uExtinf(channel) ==
  <<"#EXTINF:-1", " ">>
  \o M3uAttribute(KeyTvgId, <<channel.tvg_id>>)
  \o M3uAttribute(KeyTvgName, TvgNameOrName(channel))
  \o M3uAttribute(KeyTvgLogo, <<channel.tvg_logo>>)
  \o M3uAttribute(KeyGroupTitle, <<channel.group_title>>)
  \o <<",">> \o channel.name

\* api_get_playlist lines 344-358: the #EXTINF line of a channel
ApiExtinf(channel) ==
  <<"#EXTINF:-1">>
  \o ApiAttribute(KeyTvgId, <<channel.tvg_id>>)
  \o ApiAttribute(KeyTvgName, TvgNameOrName(channel))
  \o ApiAttribute(KeyTvgLogo, <<channel.tvg_logo>>)
  \o ApiAttribute(KeyGroupTitle, <<channel.group_title>>)
  \o <<",">> \o channel.name

\* the url written for a channel: test_results' working_url when there is
\* one, else the channel's url
WrittenUrl(channel) ==
  IF channel.has_test_results /\ channel.test_results.working_url \notin {None, ""}
  THEN channel.test_results.working_url
  ELSE channel.url

\* export_m3u lines 59-61: the channel is passed over
M3uSkips(channel, only_working) ==
  /\ only_working
  /\ channel.has_test_results
  /\ channel.test_results.status # "online"

\* 'test_results' in ch and ch['test_results'].get('status') == 'online'
IsOnline(channel) ==
  channel.has_test_results /\ channel.test_results.status = "online"

\* the loop of export_m3u: what is written after the #EXTM3U line
RECURSIVE M3uEntries(_, _, _)
M3uEntries(store, k, only_working) ==
  IF k > Len(store) THEN <<>>
  ELSE (IF M3uSkips(store[k], only_working) \/ WrittenUrl(store[k]) = ""
        THEN <<>>
        ELSE <<[channel |-> store[k], extinf |-> M3uExtinf(store[k]),
                url |-> WrittenUrl(store[k])]>>)
       \o M3uEntries(store, k + 1, only_working)

\* export_m3u(channels, only_working=only_working)
export_m3u(store, only_working) == M3uEntries(store, 1, only_working)

\* export_json(channels, only_working=only_working): export_data['channels']
export_json(store, only_working) ==
  IF only_working THEN SelectSeq(store, IsOnline) ELSE store

\* the loop of api_get_playlist over the online channels
RECURSIVE ApiEntries(_, _)
ApiEntries(online_channels, k) ==
  IF k > Len(online_channels) THEN <<>>
  ELSE (IF WrittenUrl(online_channels[k]) = ""
        THEN <<>>
        ELSE <<[channel |-> online_channels[k], extinf |-> ApiExtinf(online_channels[k]),
                url |-> WrittenUrl(online_channels[k])]>>)
       \o ApiEntries(online_channels, k + 1)

\* GET /api/playlist.m3u
api_get_playlist(store) == ApiEntries(SelectSeq(store, IsOnline), 1)

\* a parsed channel as it is stored: never tested, or after a batch_test
\* that found its main url available, or unavailable
ChannelLives(channel) ==
  { channel,
    _update_test_result(EnsureTestResults(channel), channel.url, "main", TRUE, "0.120", 1),
    _update_test_result(EnsureTestResults(channel), channel.url, "main", FALSE, "timeout", 1) }

StoredChannels == UNION { ChannelLives(channel) : channel \in ParsedChannels }

\* the stores a process exports from
ExportStores == UNION { [1..n -> StoredChannels] : n \in 0..MaxChannels }

\* POST /export/create with type m3u
ExportM3U(only_working) ==
  /\ exported' = [op |-> "export_m3u", only_working |-> only_working,
                  written |-> export_m3u(channels, only_working)]
  /\ UNCHANGED <<channels, agg_calls, agg_hist, batchVars, updVars, schedVars,
                 parse_call>>

\* POST /export/create with type json; written holds the exported channels
ExportJSON(only_working) ==
  /\ exported' = [op |-> "export_json", only_working |-> only_working,
                  written |-> [k \in 1..Len(export_json(channels, only_working)) |->
                                 [channel |-> export_json(channels, only_working)[k],
                                  extinf |-> <<>>, url |-> ""]]]
  /\ UNCHANGED <<channels, agg_calls, agg_hist, batchVars, updVars, schedVars,
                 parse_call>>

\* GET /api/playlist.m3u
ApiGetPlaylist ==
  /\ exported' = [op |-> "api_get_playlist", only_working |-> TRUE,
                  written |-> api_get_playlist(channels)]
  /\ UNCHANGED <<channels, agg_calls, agg_hist, batchVars, updVars, schedVars,
                 parse_call>>

InitExport ==
  /\ channels \in ExportStores
  /\ agg_calls = 0
  /\ agg_hist = NoCall
  /\ pc = "idle"
  /\ batch = <<>>
  /\ test_all_sources = FALSE
  /\ test_tasks = <<>>
  /\ probe = <<>>
  /\ applied = {}
  /\ before = <<>>
  /\ clock = 0
  /\ progress = NoProgress
  /\ subscriptions = <<>>
  /\ subs_file = subscriptions
  /\ sub_call = NoSubCall
  /\ run = NoRun
  /\ config = DefaultConfig
  /\ jobs = {}
  /\ running = {}
  /\ fired = [job_id \in {"update_subscriptions", "test_streams",
                           "update_subscriptions_once", "test_streams_once"} |-> 0]
  /\ parse_call = NoParse
  /\ exported = NoExport

NextExport ==
  \/ \E only_working \in BOOLEAN : ExportM3U(only_working)
  \/ \E only_working \in BOOLEAN : ExportJSON(only_working)
  \/ ApiGetPlaylist

SpecExport == InitExport /\ [][NextExport]_vars

\* ------------------------------------------------------------------------
\* The scheduler jobs and the request handlers that run the cycles
\* ------------------------------------------------------------------------
\* Executions of update_subscriptions, test_streams and test_channel are
\* followed from their start to their end; what they do to the store is the
\* subject of the actions above.  BackgroundScheduler runs each due job in a
\* thread of its pool, at most one instance per job id (max_instances is left
\* at 1); request handlers run in the thread of their request.
JobFunc(job_id) ==
  IF job_id \in {"update_subscriptions", "update_subscriptions_once"}
  THEN "update_subscriptions"
  ELSE "test_streams"

JobRun(job_id) == [by |-> job_id, func |-> JobFunc(job_id), channel_id |-> 0]

RequestRun(channel_id) ==
  [by |-> "request", func |-> "test_channel", channel_id |-> channel_id]

\* self.jobs after add_interval_job(job_id, func, ...): remove_job(job_id),
\* then an interval job that is due at once
add_interval_job(js, job_id) == (js \ {job_id}) \cup {job_id}

\* init_scheduler(), before the first request (enable_stream_test is True)
InitScheduler ==
  /\ jobs = {}
  /\ jobs' = add_interval_job(add_interval_job(jobs, "update_subscriptions"),
                              "test_streams")
  /\ fired' = [fired EXCEPT !["update_subscriptions"] = 0, !["test_streams"] = 0]
  /\ UNCHANGED <<auxVars, channels, agg_calls, agg_hist, batchVars, updVars, running>>

\* POST /update
ManualUpdate ==
  /\ jobs # {}
  /\ jobs' = add_interval_job(jobs, "update_subscriptions_once")
  /\ fired' = [fired EXCEPT !["update_subscriptions_once"] = 0]
  /\ UNCHANGED <<auxVars, channels, agg_calls, agg_hist, batchVars, updVars, running>>

\* POST /channels/test-all
TestAllChannels ==
  /\ jobs # {}
  /\ jobs' = add_interval_job(jobs, "test_streams_once")
  /\ fired' = [fired EXCEPT !["test_streams_once"] = 0]
  /\ UNCHANGED <<auxVars, channels, agg_calls, agg_hist, batchVars, updVars, running>>

\* the scheduler starts the function of a job that is due: at once after
\* the job was added (next_run_time is now), and then whenever its interval
\* has passed again, as long as the job is scheduled
JobStart(job_id) ==
  /\ job_id \in jobs
  /\ JobRun(job_id) \notin running
  /\ fired[job_id] < MaxFirings
  /\ running' = running \cup {JobRun(job_id)}
  /\ fired' = [fired EXCEPT ![job_id] = @ + 1]
  /\ UNCHANGED <<auxVars, channels, agg_calls, agg_hist, batchVars, updVars, jobs>>

\* the function of a job returns
JobEnd(job_id) ==
  /\ JobRun(job_id) \in running
  /\ running' = running \ {JobRun(job_id)}
  /\ UNCHANGED <<auxVars, channels, agg_calls, agg_hist, batchVars, updVars, jobs, fired>>

\* POST /channels/test/<channel_id> enters batch_test
TestChannelBegin(channel_id) ==
  /\ jobs # {}
  /\ 0 <= channel_id /\ channel_id < Len(channels)
  /\ RequestRun(channel_id) \notin running
  /\ running' = running \cup {RequestRun(channel_id)}
  /\ UNCHANGED <<auxVars, channels, agg_calls, agg_hist, batchVars, updVars, jobs, fired>>

\* POST /channels/test/<channel_id> has saved and answers
TestChannelEnd(channel_id) ==
  /\ RequestRun(channel_id) \in running
  /\ running' = running \ {RequestRun(channel_id)}
  /\ UNCHANGED <<auxVars, channels, agg_calls, agg_hist, batchVars, updVars, jobs, fired>>

JobIds ==
  {"update_subscriptions", "test_streams", "update_subscriptions_once",
   "test_streams_once"}

NextSched ==
  \/ InitScheduler
  \/ ManualUpdate
  \/ TestAllChannels
  \/ \E job_id \in JobIds : JobStart(job_id)
  \/ \E job_id \in JobIds : JobEnd(job_id)
  \/ \E id \in 0..(MaxChannels - 1) : TestChannelBegin(id)
  \/ \E id \in 0..(MaxChannels - 1) : TestChannelEnd(id)

SpecSched == InitUpdate /\ [][NextSched]_vars

\* update_subscriptions, test_streams and POST /channels/test/<channel_id>,
\* one call at a time, in a process with one subscription
InitStore ==
  /\ channels \in LoadedStores
  /\ agg_calls = 0
  /\ agg_hist = NoCall
  /\ pc = "idle"
  /\ batch = <<>>
  /\ test_all_sources = FALSE
  /\ test_tasks = <<>>
  /\ probe = <<>>
  /\ applied = {}
  /\ before = <<>>
  /\ clock = 0
  /\ progress = NoProgress
  /\ subscriptions = <<NewSubscription("s1")>>
  /\ subs_file = subscriptions
  /\ sub_call = NoSubCall
  /\ run = NoRun
  /\ config \in Configs
  /\ jobs = {}
  /\ running = {}
  /\ fired = [job_id \in {"update_subscriptions", "test_streams",
                           "update_subscriptions_once", "test_streams_once"} |-> 0]
  /\ parse_call = NoParse
  /\ exported = NoExport

NextStore ==
  \/ /\ run.n + clock < MaxStoreCalls
     /\ \E responses \in [1..Len(subscriptions) -> FetchResponses], io_ok \in BOOLEAN :
          UpdateSubscriptions(responses, io_ok)
  \/ /\ run.n + clock < MaxStoreCalls
     /\ TestStreams
  \/ /\ run.n + clock < MaxStoreCalls
     /\ \E id \in 0..(MaxChannels - 1) : TestChannel(id)
  \/ \E t \in 1..Len(test_tasks) : ApplyResult(t)
  \/ FinishBatch
  \/ InterruptBatch
  \/ LeaveBatch

SpecStore == InitStore /\ [][NextStore]_vars


\* ------------------------------------------------------------------------
\* Properties
\* ------------------------------------------------------------------------
\* the tasks of the channel at position i of the batch
TasksOf(i) == { t \in 1..Len(test_tasks) : test_tasks[t].i = i }
Chan(i) == channels[batch[i]]
Before(i) == before[batch[i]]
IsMain(t) == test_tasks[t].url_type = "main"
IsSource(t) == test_tasks[t].url_type = "source"

\* the results of channel i applied in the order of test_tasks
RECURSIVE ApplyInTaskOrder(_, _, _)
ApplyInTaskOrder(channel, i, t) ==
  IF t > Len(test_tasks) THEN channel
  ELSE IF test_tasks[t].i = i
       THEN ApplyInTaskOrder(
              _update_test_result(channel, test_tasks[t].url, test_tasks[t].url_type,
                                  probe[t].is_working, probe[t].result, clock),
              i, t + 1)
       ELSE ApplyInTaskOrder(channel, i, t + 1)

LivenessView(channel) ==
  <<channel.test_results.status, channel.test_results.working_url, channel.url>>

\* C1: when batch_test has returned, each channel's status, working_url and
\* url are the ones obtained by applying its results in task-list order, that
\* is, every completion order gives the same final channel state.
C1_OrderIndependent ==
  pc = "returned" =>
    \A i \in 1..Len(batch) :
      LivenessView(Chan(i)) =
        LivenessView(ApplyInTaskOrder(EnsureTestResults(Before(i)), i, 1))

\* C2: when batch_test has returned, a channel that had a probe task is
\* online exactly when one of its probed urls was reported available.
C2_OnlineIffAnyAvailable ==
  pc = "returned" =>
    \A i \in 1..Len(batch) :
      TasksOf(i) # {} =>
        (Chan(i).test_results.status = "online"
           <=> \E t \in TasksOf(i) : probe[t].is_working)

\* C3: main url unavailable and the single source url available: after
\* batch_test(test_all_sources=True) the channel is online on the source url,
\* which has become the channel's url.
C3_AlternatePromoted ==
  (pc = "returned" /\ test_all_sources) =>
    \A i \in 1..Len(batch) : \A m, s \in TasksOf(i) :
      (/\ TasksOf(i) = {m, s}
       /\ IsMain(m) /\ ~probe[m].is_working
       /\ IsSource(s) /\ probe[s].is_working)
      => /\ Chan(i).test_results.status = "online"
         /\ Chan(i).test_results.working_url = test_tasks[s].url
         /\ Chan(i).url = test_tasks[s].url

\* C4: when the main url probe is available, after the batch working_url is
\* the probed main url and the channel's url is unchanged.
C4_PrimaryWins ==
  pc = "returned" =>
    \A i \in 1..Len(batch) : \A m \in TasksOf(i) :
      (IsMain(m) /\ probe[m].is_working)
      => /\ Chan(i).test_results.working_url = test_tasks[m].url
         /\ Chan(i).url = Before(i).url

\* C5: an online channel has a working_url, and it is the channel's url or
\* the url of one of its sources.
C5_OnlineHasKnownWorkingUrl ==
  \A k \in 1..Len(channels) :
    channels[k].test_results.status = "online" =>
      /\ channels[k].test_results.working_url # None
      /\ \/ channels[k].test_results.working_url = channels[k].url
         \/ \E j \in 1..Len(channels[k].sources) :
              channels[k].sources[j].url = channels[k].test_results.working_url

\* C6: an offline channel has neither a working_url nor a response_time.
C6_OfflineHasNoWorkingUrl ==
  \A k \in 1..Len(channels) :
    channels[k].test_results.status = "offline" =>
      /\ channels[k].test_results.working_url = None
      /\ channels[k].test_results.response_time = None

\* C6 witness: a result application turned a channel that was online (with a
\* working_url) offline.
C6_Witness ==
  /\ pc = "testing"
  /\ \E i \in 1..Len(batch) :
       /\ TasksOf(i) \cap applied # {}
       /\ Before(i).test_results.status = "online"
       /\ Before(i).test_results.working_url # None
       /\ Chan(i).test_results.status = "offline"

DerivedLiveness(i) ==
  IF \E t \in TasksOf(i) : IsMain(t) /\ probe[t].is_working
  THEN { <<"online", test_tasks[t].url>> :
           t \in { u \in TasksOf(i) : IsMain(u) /\ probe[u].is_working } }
  ELSE IF \E t \in TasksOf(i) : probe[t].is_working
  THEN { <<"online", test_tasks[t].url>> :
           t \in { u \in TasksOf(i) : probe[u].is_working } }
  ELSE { <<"offline", None>> }

\* C8: between two result applications each channel's liveness is its
\* pre-batch value or the value derived from all of its results.
C8_NoPartialLiveness ==
  pc = "testing" =>
    \A i \in 1..Len(batch) :
      LET live == <<Chan(i).test_results.status, Chan(i).test_results.working_url>>
          prior == <<Before(i).test_results.status, Before(i).test_results.working_url>>
      IN  live = prior \/ (TasksOf(i) # {} /\ live \in DerivedLiveness(i))

NoDuplicateSources(channel) ==
  \A a, b \in 1..Len(channel.sources) :
    a # b => channel.sources[a].url # channel.sources[b].url

\* C9: a second aggregate_channels call with the same candidates, match_by and
\* threshold leaves the channel count unchanged and no sources list holds a
\* url twice.
C9_MergeIdempotent ==
  agg_hist.repeated =>
    /\ Len(channels) = agg_hist.prev_count
    /\ \A k \in 1..Len(channels) : NoDuplicateSources(channels[k])

SameKey(c, d) ==
  /\ _normalize_name(c.name) = _normalize_name(d.name)
  /\ c.group_title = d.group_title

HoldsUrl(channel, url) ==
  \/ channel.url = url
  \/ \E j \in 1..Len(channel.sources) : channel.sources[j].url = url

\* C10: after aggregate_channels no two stored channels share normalized name
\* and group_title, and two candidates of the call with the same normalized
\* name and group are one channel that holds both urls.
C10_MergeConvergence ==
  agg_hist # NoCall =>
    /\ \A a, b \in 1..Len(channels) : a # b => ~SameKey(channels[a], channels[b])
    /\ \A x, y \in 1..Len(agg_hist.new_channels) :
         (x # y /\ SameKey(agg_hist.new_channels[x], agg_hist.new_channels[y]))
         => \E a \in 1..Len(channels) :
              /\ SameKey(channels[a], agg_hist.new_channels[x])
              /\ HoldsUrl(channels[a], agg_hist.new_channels[x].url)
              /\ HoldsUrl(channels[a], agg_hist.new_channels[y].url)
              /\ \A b \in 1..Len(channels) :
                   SameKey(channels[b], agg_hist.new_channels[x]) => b = a

\* C11: no channel's sources list holds two entries with the same url, also
\* when a url line of the playlist names a url more than once.
C11_NoDuplicateSourceUrls ==
  \A k \in 1..Len(channels) : NoDuplicateSources(channels[k])

\* C12: an aggregate_channels call leaves url, name, group_title, tvg_name and
\* test_results of every channel that was already stored as they were, and
\* changes its tvg_id or tvg_logo only from empty to a candidate's non-empty
\* value.
C12_MatchedUpdateFrame ==
  [][ run'.n = run.n + 1 =>
        \A k \in 1..Len(channels) :
          /\ channels'[k].url = channels[k].url
          /\ channels'[k].name = channels[k].name
          /\ channels'[k].group_title = channels[k].group_title
          /\ channels'[k].tvg_name = channels[k].tvg_name
          /\ channels'[k].has_test_results = channels[k].has_test_results
          /\ channels'[k].test_results = channels[k].test_results
          /\ channels'[k].tvg_id # channels[k].tvg_id =>
               /\ channels[k].tvg_id = ""
               /\ \E c \in 1..Len(run'.all_channels) :
                    /\ run'.all_channels[c].tvg_id # ""
                    /\ run'.all_channels[c].tvg_id = channels'[k].tvg_id
          /\ channels'[k].tvg_logo # channels[k].tvg_logo =>
               /\ channels[k].tvg_logo = ""
               /\ \E c \in 1..Len(run'.all_channels) :
                    /\ run'.all_channels[c].tvg_logo # ""
                    /\ run'.all_channels[c].tvg_logo = channels'[k].tvg_logo
    ]_vars

\* C12 witness: the run matched a candidate to a stored channel that had been
\* tested online and had no tvg_id, and the channel now has one.
C12_Witness ==
  /\ run.n > 0
  /\ run.returned.updated > 0
  /\ \E k \in 1..Len(run.before) :
       /\ run.before[k].test_results.status = "online"
       /\ run.before[k].tvg_id = ""
       /\ channels[k].tvg_id # ""
       /\ channels[k].test_results.status = "online"

InSources(channel, url) ==
  \E j \in 1..Len(channel.sources) : channel.sources[j].url = url

\* the store when the loop of aggregate_channels of the latest run came to
\* its c-th candidate
StoreAt(c) ==
  MergeLoop(run.before, SubSeq(run.all_channels, 1, c - 1), 1,
            run.match_by, run.similarity_threshold)

\* the channel aggregate_channels matched the c-th candidate of the latest
\* run to, 0 when the candidate was appended
MatchedTo(c) ==
  _find_matching_channel(StoreAt(c), run.all_channels[c], run.match_by,
                         run.similarity_threshold)

\* C13: after aggregate_channels matched a candidate to a stored channel,
\* that channel's sources hold the candidate's url and every url of the
\* candidate's own sources list.
C13_MatchedUpdateAddsAllUrls ==
  (run.n > 0 /\ run.before # <<>>) =>
    \A c \in 1..Len(run.all_channels) :
      MatchedTo(c) # 0 =>
        /\ InSources(channels[MatchedTo(c)], run.all_channels[c].url)
        /\ \A j \in 1..Len(run.all_channels[c].sources) :
             InSources(channels[MatchedTo(c)], run.all_channels[c].sources[j].url)

\* the k-th answer of the latest run is a text that does not begin with #EXTM3U
LacksMarker(k) ==
  /\ run.responses[k].raises = None
  /\ run.responses[k].status_code = 200
  /\ ~StartsWithMarker(run.responses[k].content, 1)

\* nothing in the store that carries url as its source came with the latest run
NothingMergedFrom(url) ==
  \A i \in 1..Len(channels) :
    /\ channels[i].source = url => i <= Len(run.before)
    /\ \A j \in 1..Len(channels[i].sources) :
         channels[i].sources[j].source = url =>
           /\ i <= Len(run.before)
           /\ \/ /\ j <= Len(run.before[i].sources)
                 /\ run.before[i].sources[j] = channels[i].sources[j]
              \/ /\ ~run.before[i].has_sources
                 /\ run.before[i].source = url
                 /\ run.before[i].url = channels[i].sources[j].url

\* C14: a playlist text that does not begin with #EXTM3U is rejected with the
\* format error, none of the channels handed to aggregate_channels comes from
\* it, and nothing of it is merged into the store.
C14_MissingMarkerRejected ==
  run.n > 0 =>
    \A k \in 1..Len(run.responses) :
      LacksMarker(k) =>
        /\ ~fetch_m3u(run.responses[k]).success
        /\ fetch_m3u(run.responses[k]).message = "invalid M3U format"
        /\ subscriptions[k].status = "failed"
        /\ \A c \in 1..Len(run.all_channels) :
             run.all_channels[c].source # subscriptions[k].url
        /\ NothingMergedFrom(subscriptions[k].url)

\* C14 witness: in one run a text without the marker that has a channel entry
\* was fetched next to a playlist whose channels were merged.
C14_Witness ==
  /\ run.n > 0
  /\ run.all_channels # <<>>
  /\ \E k \in 1..Len(run.responses) :
       /\ LacksMarker(k)
       /\ parse_m3u(run.responses[k].content, subscriptions[k].url) # <<>>
       /\ subscriptions[k].status = "failed"

\* the k-th fetch of the latest run failed: the request raised, the status
\* was not 200, or the text lacked the marker
FetchFailed(k) ==
  \/ run.responses[k].raises # None
  \/ run.responses[k].status_code # 200
  \/ LacksMarker(k)

\* C15: after a run of update_subscriptions every subscription whose fetch
\* failed is 'failed', and every subscription whose fetch succeeded is
\* 'active' with the number of its parsed channels as channel_count, and
\* each of its channels' urls is held by a stored channel.
C15_FailedFetchDoesNotBlock ==
  run.n > 0 =>
    \A k \in 1..Len(run.responses) :
      IF FetchFailed(k)
      THEN subscriptions[k].status = "failed"
      ELSE LET parsed == parse_m3u(run.responses[k].content, subscriptions[k].url)
           IN  /\ subscriptions[k].status = "active"
               /\ subscriptions[k].channel_count = Len(parsed)
               /\ \A c \in 1..Len(parsed) :
                    \E i \in 1..Len(channels) : HoldsUrl(channels[i], parsed[c].url)

\* C15 witness: in the latest run the first fetch failed and the second
\* succeeded with at least one channel.
C15_Witness ==
  /\ run.n > 0
  /\ Len(run.responses) = 2
  /\ FetchFailed(1)
  /\ subscriptions[1].status = "failed"
  /\ ~FetchFailed(2)
  /\ parse_m3u(run.responses[2].content, subscriptions[2].url) # <<>>
  /\ subscriptions[2].status = "active"

\* C16: at no time are two executions of update_subscriptions, test_streams
\* or test_channel active at once.
C16_NoOverlappingCycles == Cardinality(running) <= 1

\* C17: when save_channels failed in the latest aggregate_channels call, the
\* in-memory list is the list as it was when the save was attempted, and the
\* value aggregate_channels returned is not the counts the call returns when
\* the save succeeds.
C17_SaveFailureReported ==
  (run.n > 0 /\ run.all_channels # <<>> /\ ~run.saved) =>
    /\ channels = aggregate_channels(run.before, run.all_channels, run.match_by,
                                     run.similarity_threshold)
    /\ run.returned # aggregate_return(run.before, run.all_channels, run.match_by,
                                       run.similarity_threshold, TRUE)

\* what makes a stored channel the channel it is
Identity(channel) ==
  <<channel.name, channel.group_title, channel.tvg_name, channel.source>>

\* C18: no step of aggregate_channels or batch_test removes a channel: the
\* store never gets shorter and every stored channel stays at its position.
C18_NoChannelRemoved ==
  [][ /\ Len(channels') >= Len(channels)
      /\ \A k \in 1..Len(channels) : Identity(channels'[k]) = Identity(channels[k])
    ]_vars

\* C18 witness: aggregate_channels appended to a store that held a channel,
\* and a batch_test of the channel at the second position has returned.
C18_Witness ==
  /\ run.n > 0
  /\ run.before # <<>>
  /\ Len(channels) > Len(run.before)
  /\ pc = "returned"
  /\ batch = <<2>>
  /\ applied # {}

\* C19: a probe that fails comes back from test_stream as (False, reason)
\* and not as an exception; while results are outstanding each of them can
\* still be applied whatever was applied before, batch_test can return once
\* all are applied, and when it has returned every task's result was applied
\* and every probed channel carries the time of this batch.
C19_FailedProbeNeverAborts ==
  /\ \A t \in 1..Len(probe) :
       /\ ~probe[t].raised
       /\ ~probe[t].is_working => probe[t].result \in ErrorMessages
  /\ pc = "testing" =>
       /\ \A t \in (1..Len(test_tasks)) \ applied : ENABLED ApplyResult(t)
       /\ applied = 1..Len(test_tasks) => ENABLED FinishBatch
  /\ pc = "returned" =>
       /\ applied = 1..Len(test_tasks)
       /\ \A i \in 1..Len(batch) :
            TasksOf(i) # {} => Chan(i).test_results.last_tested = clock

\* C19 witness: batch_test has returned from a batch in which one probe
\* failed and the probe of another channel succeeded and left that channel
\* online.
C19_Witness ==
  /\ pc = "returned"
  /\ \E t1, t2 \in 1..Len(test_tasks) :
       /\ test_tasks[t1].i # test_tasks[t2].i
       /\ ~probe[t1].is_working
       /\ probe[t2].is_working
       /\ Chan(test_tasks[t1].i).test_results.status = "offline"
       /\ Chan(test_tasks[t2].i).test_results.status = "online"

\* ratio sim1 is greater than ratio sim2, both given as <<2*M, T>>
RatioGreater(sim1, sim2) == sim1[1] * sim2[2] > sim2[1] * sim1[2]

\* the stored channel with the highest similarity to name among those at or
\* above the threshold, the earliest of them on a tie; 0 when there is none
BestByScore(store, name, threshold) ==
  LET above == { k \in 1..Len(store) :
                   SimilarityAtLeast(SimilarityOf[store[k].name, name], threshold) }
  IN  IF above = {} THEN 0
      ELSE CHOOSE k \in above : \A o \in above :
             \/ RatioGreater(SimilarityOf[store[k].name, name],
                             SimilarityOf[store[o].name, name])
             \/ /\ ~RatioGreater(SimilarityOf[store[o].name, name],
                                 SimilarityOf[store[k].name, name])
                /\ k <= o

\* C20: under name matching, a candidate whose name equals no stored name is
\* matched to the stored channel with the highest similarity at or above the
\* threshold, the earliest one on a tie.
C20_HighestScoreWins ==
  (run.n > 0 /\ run.before # <<>> /\ run.match_by = "name") =>
    \A c \in 1..Len(run.all_channels) :
      (\A k \in 1..Len(StoreAt(c)) :
         Lower(StoreAt(c)[k].name) # Lower(run.all_channels[c].name))
      => MatchedTo(c) = BestByScore(StoreAt(c), run.all_channels[c].name,
                                    run.similarity_threshold)

\* C21: under name matching, when the store holds a channel with the
\* candidate's normalized name and group, the channel the candidate is matched
\* to is such a channel, also when a channel that is only similar comes
\* earlier in the store.
C21_ExactNameBeforeFuzzy ==
  (run.n > 0 /\ run.before # <<>> /\ run.match_by = "name") =>
    \A c \in 1..Len(run.all_channels) :
      (\E k \in 1..Len(StoreAt(c)) : SameKey(StoreAt(c)[k], run.all_channels[c]))
      => /\ MatchedTo(c) # 0
         /\ SameKey(StoreAt(c)[MatchedTo(c)], run.all_channels[c])

\* C22: with match_by 'both', when a stored channel has the candidate's
\* non-empty tvg_id, the channel the candidate is matched to has that tvg_id,
\* wherever the channels stand in the store; a name match is taken only when
\* no stored channel has the tvg_id.
C22_TvgIdBeforeName ==
  (run.n > 0 /\ run.before # <<>> /\ run.match_by = "both") =>
    \A c \in 1..Len(run.all_channels) :
      (/\ run.all_channels[c].tvg_id # ""
       /\ \E k \in 1..Len(StoreAt(c)) : StoreAt(c)[k].tvg_id = run.all_channels[c].tvg_id)
      => /\ MatchedTo(c) # 0
         /\ StoreAt(c)[MatchedTo(c)].tvg_id = run.all_channels[c].tvg_id

\* C23: a url line whose first token has no scheme gives a channel whose url
\* is that token resolved against source_url.
C23_RelativeUrlResolved ==
  (parse_call.done /\ ~HasStreamScheme(parse_call.parts[1])) =>
    /\ parse_call.channels # <<>>
    /\ parse_call.channels[1].url =
         _resolve_relative_url(parse_call.source_url, parse_call.parts[1])

\* the text after the last ',' of the line, stripped
AfterLastComma(extinf_line) ==
  LET commas == { k \in 1..Len(extinf_line) : extinf_line[k] = "," }
  IN  Strip(SubSeq(extinf_line, (CHOOSE k \in commas : \A o \in commas : k >= o) + 1,
                   Len(extinf_line)))

\* C24: the name decoded from an #EXTINF line that has a ',' is the text after
\* the last ',' of the line, stripped, and it is the name of the channel built
\* from the line.
C24_NameAfterLastComma ==
  (parse_call.done /\ \E k \in 1..Len(parse_call.extinf_line) : parse_call.extinf_line[k] = ",") =>
    /\ parse_call.info.name = AfterLastComma(parse_call.extinf_line)
    /\ \A c \in 1..Len(parse_call.channels) : parse_call.channels[c].name = parse_call.info.name

\* the fields of a channel that batch_test has no business with
FrameOf(channel) ==
  <<channel.name, channel.group_title, channel.tvg_id, channel.tvg_name,
    channel.tvg_logo, channel.source, channel.has_sources, channel.sources>>

\* C25: no step of batch_test changes the number of channels or a channel's
\* name, group_title, tvg_id, tvg_name, tvg_logo or sources; a channel's url
\* changes only in a batch with test_all_sources, to the url of one of its
\* sources that was found available; without test_all_sources every task is a
\* main url task.
C25_BatchTestFrame ==
  [][ /\ Len(channels') = Len(channels)
      /\ \A k \in 1..Len(channels) :
           /\ FrameOf(channels'[k]) = FrameOf(channels[k])
           /\ channels'[k].url # channels[k].url =>
                /\ test_all_sources
                /\ InSources(channels[k], channels'[k].url)
                /\ channels'[k].test_results.status = "online"
                /\ channels'[k].test_results.working_url = channels'[k].url
      /\ ~test_all_sources' => \A t \in 1..Len(test_tasks') : test_tasks'[t].url_type = "main"
    ]_vars

\* C25 witness: a batch with test_all_sources has returned after promoting a
\* source url of a channel, whose main url was found unavailable.
C25_Witness ==
  /\ pc = "returned"
  /\ test_all_sources
  /\ \E i \in 1..Len(batch) :
       /\ Chan(i).url # Before(i).url
       /\ InSources(Chan(i), Chan(i).url)
       /\ \E t \in TasksOf(i) : IsMain(t) /\ ~probe[t].is_working

\* C26: after every iteration of the result loop of batch_test the counters
\* satisfy completed <= total and online + offline <= total, total being the
\* number of channels of the batch.
C26_ProgressWithinTotal ==
  pc \in {"testing", "returned"} =>
    /\ progress.total = Len(batch)
    /\ progress.completed <= progress.total
    /\ progress.online + progress.offline <= progress.total

\* the channels an export wrote entries for
WrittenChannels(entries) == [k \in 1..Len(entries) |-> entries[k].channel]

\* C27: export_m3u with only_working writes entries only for channels whose
\* test_results.status is 'online', and for the same channels as export_json
\* with only_working (those of them that have a url) and as
\* GET /api/playlist.m3u.
C27_OnlyWorkingSelectsOnline ==
  (exported.op = "export_m3u" /\ exported.only_working) =>
    /\ \A k \in 1..Len(exported.written) : IsOnline(exported.written[k].channel)
    /\ WrittenChannels(exported.written)
         = SelectSeq(export_json(channels, TRUE), LAMBDA ch : WrittenUrl(ch) # "")
    /\ WrittenChannels(exported.written) = WrittenChannels(api_get_playlist(channels))

\* C28: the job that POST /update or POST /channels/test-all registers runs
\* its function once for that request and does not fire again.
C28_OneShotRunsOnce ==
  /\ fired["update_subscriptions_once"] <= 1
  /\ fired["test_streams_once"] <= 1

\* C29: no two subscriptions of the list have the same url.
C29_UniqueSubscriptionUrls ==
  \A i, j \in 1..Len(subscriptions) :
    i # j => subscriptions[i].url # subscriptions[j].url

\* C29 witness: with two subscriptions in the list, one of them marked
\* failed, a call of update_subscription has returned failure and the list is
\* the one the file holds.
C29_Witness ==
  /\ Len(subscriptions) = 2
  /\ sub_call.op = "update_subscription"
  /\ ~sub_call.ok
  /\ subs_file = subscriptions
  /\ \E i \in 1..2 : subscriptions[i].status = "failed"

\* C30: a call of add_subscription, remove_subscription or update_subscription
\* that returns failure leaves the in-memory list as it was before the call.
C30_FailureLeavesListUnchanged ==
  [][ (sub_call'.op \in {"add_subscription", "remove_subscription", "update_subscription"}
       /\ ~sub_call'.ok)
      => subscriptions' = subscriptions
    ]_vars

====
